---------------------------- MODULE Spec2Model ----------------------------
(***************************************************************************)
(* Model of the three MCP tool servers of update_for_github:               *)
(*   family_check_days.py    get_health_records_by_recent_days(name, day)  *)
(*   family_history_check.py analyze_health_data(user_name, user_query)    *)
(*   family_member_check.py  list_family_members()                         *)
(*                                                                         *)
(* Text is modelled as a sequence of characters.  TLA+ strings are ASCII,  *)
(* so the non-ASCII characters are written with ASCII stand-ins:           *)
(*   "ZH_A"     U+963F, lazy_pinyin gives "a"                              *)
(*   "ZH_BA"    U+516B, lazy_pinyin gives "ba"                             *)
(*   "FW_COMMA" U+FF0C, a non-ASCII character lazy_pinyin leaves as is     *)
(* The fixed Chinese messages are written as ASCII tags; each tag is       *)
(* explained where it is defined.                                          *)
(***************************************************************************)
EXTENDS Integers, Sequences, FiniteSets, TLC

VARIABLES
    tool,        \* the operation being served: "none", "days", "history", "list", "canon"
    pc,          \* position of the invocation
    name,        \* argument name / user_name
    day,         \* argument day
    user_query,  \* argument user_query
    day_int,     \* local day_int
    query_name,  \* local query_name
    directory,   \* outcome of the directory GET of this invocation
    members,     \* result of fetch_family_members()
    origin,      \* ghost: origin[i] is the index of the roster row members[i] was built from
    looked,      \* ghost: the keys handed to pinyin_index.get
    target,      \* local target (candidate_list[0]), a sequence of 0 or 1 member records
    downstream,  \* outcome of the downstream call of this invocation
    calls,       \* network calls issued by this invocation, in order
    formatted,   \* format_health_output has been invoked
    output,      \* what the invocation gave the host: a returned text or a raised exception
    canon_in,    \* SpecCanon: the text handed to the canonicalizer
    canon_out,   \* SpecCanon: name_to_lower_pinyin(canon_in)
    canon_again  \* SpecCanon: name_to_lower_pinyin(canon_out)

vars == <<tool, pc, name, day, user_query, day_int, query_name, directory, members,
          origin, looked, target, downstream, calls, formatted, output,
          canon_in, canon_out, canon_again>>

cvars == <<canon_in, canon_out, canon_again>>

----------------------------------------------------------------------------
(* Characters *)

LowerChars == {"a", "b"}
UpperChars == {"A"}
DigitChars == {"0", "1"}
SpaceChars == {" "}
PunctChars == {"-"}
HanziChars == {"ZH_A", "ZH_BA"}
WideChars == {"FW_COMMA"}

AsciiChars == LowerChars \cup UpperChars \cup DigitChars \cup SpaceChars \cup PunctChars
Chars == AsciiChars \cup HanziChars \cup WideChars

\* ord(c) < 128
IsAscii(c) == c \in AsciiChars

\* str.lower() on one character
ToLower(c) == IF c = "A" THEN "a" ELSE c

lower(s) == [i \in 1..Len(s) |-> ToLower(s[i])]

RECURSIVE lstrip(_)
lstrip(s) == IF s # <<>> /\ Head(s) \in SpaceChars THEN lstrip(Tail(s)) ELSE s

RECURSIVE rstrip(_)
rstrip(s) ==
    IF s # <<>> /\ s[Len(s)] \in SpaceChars THEN rstrip(SubSeq(s, 1, Len(s) - 1)) ELSE s

\* str.strip()
strip(s) == rstrip(lstrip(s))

\* the character class [a-z0-9]
IsAlnumLower(c) == c \in LowerChars \cup DigitChars

\* mutant of re_sub_non_alnum: the class also lets the hyphen through
re_sub_keeps_hyphen(s) == SelectSeq(s, LAMBDA c : IsAlnumLower(c) \/ c \in PunctChars)

\* re.sub(r"[^a-z0-9]", "", s)
re_sub_non_alnum(s) == SelectSeq(s, IsAlnumLower)

normalize_ascii_pinyin(s) ==
    IF s = <<>> THEN <<>> ELSE re_sub_non_alnum(lower(strip(s)))

\* pypinyin.lazy_pinyin on one character: the toneless reading of a Chinese
\* character, any other character unchanged
PinyinOf(c) ==
    CASE c = "ZH_A" -> <<"a">>
      [] c = "ZH_BA" -> <<"b", "a">>
      [] OTHER -> <<c>>

lazy_pinyin(s) == [i \in 1..Len(s) |-> PinyinOf(s[i])]

RECURSIVE join(_)
\* "".join(parts)
join(parts) == IF parts = <<>> THEN <<>> ELSE Head(parts) \o join(Tail(parts))

name_to_lower_pinyin(s) ==
    IF s = <<>> THEN <<>>
    ELSE IF \A i \in 1..Len(s) : IsAscii(s[i]) THEN normalize_ascii_pinyin(s)
    ELSE normalize_ascii_pinyin(join(lazy_pinyin(s)))


----------------------------------------------------------------------------
(* JSON values and Python values, as far as the tools look at them *)

JNull == [t |-> "null", v |-> <<>>]
JStr(s) == [t |-> "str", v |-> s]
\* a JSON number, held as its decimal digits
JInt(digits) == [t |-> "int", v |-> digits]
JList(cells) == [t |-> "list", v |-> cells]

\* isinstance(row, (list, tuple))
IsListRow(row) == row.t = "list"

\* len(row) raises TypeError for None and for a number
HasLen(row) == row.t \in {"str", "list"}

\* row[i]: the elements of a list, the one-character strings of a str
elems(row) ==
    IF row.t = "str" THEN [i \in 1..Len(row.v) |-> JStr(<<row.v[i]>>)] ELSE row.v

\* str(x) of a str or a number
py_str(x) == x.v

\* bool(x)
truthy(x) ==
    CASE x.t = "null" -> FALSE
      [] x.t = "int" -> x.v # <<"0">>
      [] OTHER -> x.v # <<>>

Member(uid, original_name, pinyin) ==
    [uid |-> uid, original_name |-> original_name, pinyin |-> pinyin]

----------------------------------------------------------------------------
(* fetch_family_members, family_check_days.py *)

\* the body of the try block for one row; an exception inside it is caught
\* and logged, and the loop goes on with the next row
days_row(row) ==
    IF ~HasLen(row) THEN <<>>
    ELSE
        LET e == elems(row)
            uid == IF Len(e) > 0 /\ e[1].t # "null" THEN py_str(e[1]) ELSE <<>>
            original_name == IF Len(e) > 1 /\ e[2].t # "null" THEN py_str(e[2]) ELSE <<>>
            pinyin_name == name_to_lower_pinyin(original_name)
        IN  IF uid = <<>> \/ original_name = <<>> THEN <<>>
            ELSE IF pinyin_name = <<>> THEN <<>>
            ELSE <<Member(uid, original_name, pinyin_name)>>

(* fetch_family_members, family_history_check.py *)

push(uid_val, name_val) ==
    IF uid_val.t = "null" \/ name_val.t = "null" THEN <<>>
    ELSE
        LET uid == strip(py_str(uid_val))
            original_name == strip(py_str(name_val))
            pinyin_name == name_to_lower_pinyin(original_name)
        IN  IF uid = <<>> \/ original_name = <<>> THEN <<>>
            ELSE IF pinyin_name = <<>> THEN <<>>
            ELSE <<Member(uid, original_name, pinyin_name)>>

history_row(row) ==
    IF IsListRow(row) /\ Len(row.v) > 1 THEN push(row.v[1], row.v[2]) ELSE <<>>

\* the loop over data.items() / data: the members in discovery order, each
\* with the index of the row it was built from
RECURSIVE collect(_, _, _)
collect(rows, i, tl) ==
    IF i > Len(rows) THEN <<>>
    ELSE LET got == IF tl = "days" THEN days_row(rows[i]) ELSE history_row(rows[i])
         IN  [k \in 1..Len(got) |-> [row |-> i, m |-> got[k]]] \o collect(rows, i + 1, tl)

\* a body that is neither dict nor list is logged and gives no members
fetch_family_members(data, tl) ==
    IF data.shape \in {"dict", "list"} THEN collect(data.rows, 1, tl) ELSE <<>>

----------------------------------------------------------------------------
(* _extract_names, family_member_check.py *)

list_row(row) ==
    IF IsListRow(row) /\ Len(row.v) > 1 /\ truthy(row.v[2])
    THEN LET name_str == strip(py_str(row.v[2]))
         IN  IF name_str # <<>> THEN <<name_str>> ELSE <<>>
    ELSE <<>>

RECURSIVE row_names(_)
row_names(rows) ==
    IF rows = <<>> THEN <<>> ELSE list_row(Head(rows)) \o row_names(Tail(rows))

RECURSIVE uniq(_, _)
\* the seen/uniq loop: first occurrences, in order
uniq(names, seen) ==
    IF names = <<>> THEN <<>>
    ELSE IF Head(names) \in seen THEN uniq(Tail(names), seen)
    ELSE <<Head(names)>> \o uniq(Tail(names), seen \cup {Head(names)})

extract_names(data) ==
    IF data.shape \in {"dict", "list"} THEN uniq(row_names(data.rows), {}) ELSE <<>>

----------------------------------------------------------------------------
(* Inputs *)

\* the longest name the canonicalizer is applied to in SpecCanon
MaxNameLen == 3
\* the largest number of rows in a directory response
MaxRows == 3
\* day: int = 3
DefaultDay == 3

\* argument values for name / user_name: a non-str value and strings that are
\* empty, blank, punctuation, Latin in either case, Chinese, mixed, full-width
NameInputs ==
    { JNull, JStr(<<>>), JStr(<<" ">>), JStr(<<"-">>), JStr(<<"FW_COMMA">>),
      JStr(<<"a">>), JStr(<<"A", " ">>), JStr(<<"b">>),
      JStr(<<"ZH_A">>), JStr(<<"ZH_A", "b">>) }

DInt(n) == [t |-> "int", n |-> n, s |-> <<>>]
DStr(s) == [t |-> "str", n |-> 0, s |-> s]
DNone == [t |-> "null", n |-> 0, s |-> <<>>]

\* argument values for day
DayInputs ==
    { DInt(DefaultDay), DInt(0), DInt(-1), DStr(<<"-", "1">>), DStr(<<"1">>),
      DStr(<<"a">>), DNone }

UserQueries == { <<"b", "a">> }

DigitValue(c) == IF c = "1" THEN 1 ELSE 0

RECURSIVE digits_value(_, _)
digits_value(s, acc) ==
    IF s = <<>> THEN acc ELSE digits_value(Tail(s), 10 * acc + DigitValue(Head(s)))

\* int(day): ok is FALSE where int() raises (TypeError for None, ValueError
\* for a string that is not an optionally signed run of digits)
py_int(d) ==
    CASE d.t = "int" -> [ok |-> TRUE, n |-> d.n]
      [] d.t = "null" -> [ok |-> FALSE, n |-> 0]
      [] OTHER ->
            LET body == strip(d.s)
                neg == body # <<>> /\ Head(body) = "-"
                digs == IF neg THEN Tail(body) ELSE body
            IN  IF digs # <<>> /\ \A i \in 1..Len(digs) : digs[i] \in DigitChars
                THEN [ok |-> TRUE,
                      n |-> IF neg THEN 0 - digits_value(digs, 0) ELSE digits_value(digs, 0)]
                ELSE [ok |-> FALSE, n |-> 0]

DecimalDigits == <<"0", "1", "2", "3", "4", "5", "6", "7", "8", "9">>

RECURSIVE int_str(_)
\* str(n) for n >= 0
int_str(n) ==
    IF n < 10 THEN <<DecimalDigits[n + 1]>>
    ELSE int_str(n \div 10) \o <<DecimalDigits[(n % 10) + 1]>>

\* rows of a directory response: not a sequence, a string, too short, null or
\* empty at position 0 or 1, a name with an empty key, and well-formed rows
\* (a numeric identifier, a name with a trailing blank, a Chinese name)
RowPool ==
    { JNull,
      JStr(<<"0", "a">>),
      JList(<<JStr(<<"1">>)>>),
      JList(<<JNull, JStr(<<"b">>)>>),
      JList(<<JStr(<<"0">>), JStr(<<>>)>>),
      JList(<<JStr(<<"1">>), JStr(<<"-">>)>>),
      JList(<<JInt(<<"1">>), JStr(<<"a">>)>>),
      JList(<<JStr(<<"0", "1">>), JStr(<<"A", " ">>)>>),
      JList(<<JStr(<<"1", "0">>), JStr(<<"ZH_A">>)>>),
      JList(<<JStr(<<"1", "1">>), JStr(<<"b">>)>>) }

Rosters == UNION { [1..k -> RowPool] : k \in 0..MaxRows }

\* a response: k says how the call ended ("json": a 2xx answer whose body
\* parsed), shape is the top-level type of the body
Resp(k, shape, rows) == [k |-> k, shape |-> shape, rows |-> rows]
NoResp == Resp("none", "none", <<>>)

\* "bad_json" is resp.json() raising ValueError; "bad_json_req" is the same
\* failure under a requests release whose JSONDecodeError is a RequestException
FailureKinds == {"network", "timeout", "http_status", "bad_json", "bad_json_req"}

\* except requests.RequestException
IsRequestException(k) == k \in {"network", "timeout", "http_status", "bad_json_req"}

\* str(e)
ExcText(k) == <<k>>

DirectoryOutcomes ==
    { Resp(k, "none", <<>>) : k \in FailureKinds }
    \cup { Resp("json", "other", <<>>) }
    \cup { Resp("json", sh, rows) : sh \in {"dict", "list"}, rows \in Rosters }

\* a downstream answer.  status is the HTTP status; for a parsed body, code
\* and msg are what data.get("code") and data.get("msg", "") give (code
\* "None": the field is absent; msg "": the field is empty or absent),
\* payload says whether the remaining fields have the shape the formatter reads
Down(k, status, shape, code, msg, payload) ==
    [k |-> k, status |-> status, shape |-> shape, code |-> code, msg |-> msg,
     payload |-> payload]
NoDown == Down("none", "", "none", "None", "", "none")

MetricsOutcomes ==
    { Down(k, "", "none", "None", "", "none") : k \in FailureKinds }
    \cup { Down("json", "200", "list", "None", "", "none") }
    \cup { Down("json", "200", "dict", c, m, "ok") :
              c \in {"0", "1", "None"}, m \in {"success", "denied", ""} }
    \cup { Down("json", "200", "dict", "0", "success", "malformed") }

RetrievalOutcomes ==
    { Down(k, "", "none", "None", "", "none") : k \in {"network", "timeout"} }
    \cup { Down("http_status", "500", "none", "None", "", "none") }
    \cup { Down(k, "200", "none", "None", "", "none") : k \in {"bad_json", "bad_json_req"} }
    \cup { Down("json", "200", "list", "None", "", "none") }
    \cup { Down("json", "200", "dict", "None", "", p) : p \in {"ok", "malformed"} }

Call(op, uid, days, query) == [op |-> op, uid |-> uid, days |-> days, query |-> query]
\* requests.get(FAMILY_LIST_URL, timeout=HTTP_TIMEOUT)
DirectoryCall == Call("GET_family_list", <<>>, 0, <<>>)

\* what the host gets: a returned text (a message tag and the values put in
\* it) or an exception
Return(msg, args) == [kind |-> "return", msg |-> msg, args |-> args]
Raise(exc) == [kind |-> "raise", msg |-> exc, args |-> <<>>]
NoOutput == [kind |-> "none", msg |-> "", args |-> <<>>]

(* Message tags, family_check_days.py:
     NEED_NAME         line 272    DAY_NOT_INT      line 277
     DAY_NOT_POSITIVE  line 280    NAME_FORMAT      line 284
     ROSTER_NET_FAIL   line 293    ROSTER_FAIL      line 296
     ROSTER_EMPTY      line 299    NOT_MY_MEMBER    line 309
     HEALTH_NET_FAIL   line 321    HEALTH_FAIL      line 324
     DATA_FAIL         line 330    FORMAT_FAIL      line 337
     HEALTH_REPORT     the text format_health_output returns
   family_history_check.py:
     NEED_NAME         line 127    NAME_FORMAT      line 131
     ROSTER_EMPTY      line 137    NOT_OUR_MEMBER   line 146
     RETRIEVAL_REPORT  line 198    RETRIEVAL_HTTP_FAIL line 201
     NET_ERROR         line 207    UNKNOWN_ERROR    line 212
   family_member_check.py:
     LIST_REPORT       lines 81, 83   LIST_NET_FAIL  line 87   LIST_FAIL  line 90 *)

----------------------------------------------------------------------------
(* Roster index *)

Project(got) == [i \in 1..Len(got) |-> got[i].m]
Origins(got) == [i \in 1..Len(got) |-> got[i].row]

\* pinyin_index: for m in members: pinyin_index.setdefault(m["pinyin"], []).append(m)
pinyin_index(ms) ==
    [key \in {ms[i].pinyin : i \in 1..Len(ms)} |->
        SelectSeq(ms, LAMBDA m : m.pinyin = key)]

\* mutant of index_get: a key that is absent falls back to some entry
index_get_fallback(idx, key) ==
    IF key \in DOMAIN idx THEN idx[key]
    ELSE IF DOMAIN idx # {} THEN idx[CHOOSE k \in DOMAIN idx : TRUE]
    ELSE <<>>

\* pinyin_index.get(query_name, [])
index_get(idx, key) == IF key \in DOMAIN idx THEN idx[key] ELSE <<>>

\* candidate_list[0], as a sequence of one record; empty when there is no candidate
first_candidate(cands) == IF cands = <<>> THEN <<>> ELSE <<cands[1]>>

Init ==
    /\ tool = "none"
    /\ pc = "idle"
    /\ name = JNull
    /\ day = DNone
    /\ user_query = <<>>
    /\ day_int = 0
    /\ query_name = <<>>
    /\ directory = NoResp
    /\ members = <<>>
    /\ origin = <<>>
    /\ looked = <<>>
    /\ target = <<>>
    /\ downstream = NoDown
    /\ calls = <<>>
    /\ formatted = FALSE
    /\ output = NoOutput
    /\ canon_in = <<>>
    /\ canon_out = <<>>
    /\ canon_again = <<>>

----------------------------------------------------------------------------
(* get_health_records_by_recent_days *)

\* mutant of days_validate: the query is transliterated like a roster name
days_validate_transliterating(n, d) ==
    IF n.t # "str" \/ strip(n.v) = <<>>
    THEN [msg |-> "NEED_NAME", day_int |-> 0, query_name |-> <<>>]
    ELSE IF ~py_int(d).ok
    THEN [msg |-> "DAY_NOT_INT", day_int |-> 0, query_name |-> <<>>]
    ELSE IF py_int(d).n <= 0
    THEN [msg |-> "DAY_NOT_POSITIVE", day_int |-> py_int(d).n, query_name |-> <<>>]
    ELSE IF name_to_lower_pinyin(n.v) = <<>>
    THEN [msg |-> "NAME_FORMAT", day_int |-> py_int(d).n, query_name |-> <<>>]
    ELSE [msg |-> "", day_int |-> py_int(d).n, query_name |-> name_to_lower_pinyin(n.v)]

\* mutant of days_validate: day_int < 0 in place of day_int <= 0
days_validate_accepts_zero(n, d) ==
    IF n.t # "str" \/ strip(n.v) = <<>>
    THEN [msg |-> "NEED_NAME", day_int |-> 0, query_name |-> <<>>]
    ELSE IF ~py_int(d).ok
    THEN [msg |-> "DAY_NOT_INT", day_int |-> 0, query_name |-> <<>>]
    ELSE IF py_int(d).n < 0
    THEN [msg |-> "DAY_NOT_POSITIVE", day_int |-> py_int(d).n, query_name |-> <<>>]
    ELSE IF normalize_ascii_pinyin(n.v) = <<>>
    THEN [msg |-> "NAME_FORMAT", day_int |-> py_int(d).n, query_name |-> <<>>]
    ELSE [msg |-> "", day_int |-> py_int(d).n, query_name |-> normalize_ascii_pinyin(n.v)]

\* lines 270-284: the message returned by the checks ("" when they pass) and
\* the locals assigned on the way
days_validate(n, d) ==
    IF n.t # "str" \/ strip(n.v) = <<>>
    THEN [msg |-> "NEED_NAME", day_int |-> 0, query_name |-> <<>>]
    ELSE IF ~py_int(d).ok
    THEN [msg |-> "DAY_NOT_INT", day_int |-> 0, query_name |-> <<>>]
    ELSE IF py_int(d).n <= 0
    THEN [msg |-> "DAY_NOT_POSITIVE", day_int |-> py_int(d).n, query_name |-> <<>>]
    ELSE IF normalize_ascii_pinyin(n.v) = <<>>
    THEN [msg |-> "NAME_FORMAT", day_int |-> py_int(d).n, query_name |-> <<>>]
    ELSE [msg |-> "", day_int |-> py_int(d).n, query_name |-> normalize_ascii_pinyin(n.v)]

\* the call arrives; the handler runs to its first return or to the directory GET
get_health_records_by_recent_days(n, d) ==
    /\ pc = "idle"
    /\ tool' = "days"
    /\ name' = n
    /\ day' = d
    /\ LET v == days_validate(n, d)
       IN  /\ day_int' = v.day_int
           /\ query_name' = v.query_name
           /\ IF v.msg # ""
              THEN /\ output' = Return(v.msg, <<>>)
                   /\ calls' = <<>>
                   /\ pc' = "done"
              ELSE /\ output' = NoOutput
                   /\ calls' = <<DirectoryCall>>
                   /\ pc' = "await_directory"
    /\ UNCHANGED <<user_query, directory, members, origin, looked, target, downstream,
                   formatted>>
    /\ UNCHANGED cvars

\* lines 290-318: the directory GET ends with r; the handler runs to its next
\* return or to the metrics GET
days_directory ==
    /\ pc = "await_directory"
    /\ tool = "days"
    /\ \E r \in DirectoryOutcomes :
       /\ directory' = r
       /\ IF r.k # "json"
          THEN /\ output' = Return(IF IsRequestException(r.k) THEN "ROSTER_NET_FAIL"
                                   ELSE "ROSTER_FAIL", <<ExcText(r.k)>>)
               /\ pc' = "done"
               /\ UNCHANGED <<members, origin, looked, target, calls>>
          ELSE LET got == fetch_family_members(r, "days")
                   ms == Project(got)
                   candidate_list == index_get(pinyin_index(ms), query_name)
               IN  /\ members' = ms
                   /\ origin' = Origins(got)
                   /\ IF ms = <<>>
                      THEN /\ output' = Return("ROSTER_EMPTY", <<>>)
                           /\ pc' = "done"
                           /\ UNCHANGED <<looked, target, calls>>
                      ELSE /\ looked' = <<query_name>>
                           /\ target' = first_candidate(candidate_list)
                           /\ IF candidate_list = <<>>
                              THEN /\ output' = Return("NOT_MY_MEMBER", <<>>)
                                   /\ pc' = "done"
                                   /\ UNCHANGED calls
                              ELSE /\ calls' = Append(calls,
                                           Call("GET_health_records", candidate_list[1].uid,
                                                day_int, <<>>))
                                   /\ pc' = "await_downstream"
                                   /\ UNCHANGED output
       /\ UNCHANGED <<tool, name, day, user_query, day_int, query_name, downstream, formatted>>
    /\ UNCHANGED cvars

\* msg or '未知错误'
shown_msg(m) == IF m = "" THEN "UNKNOWN" ELSE m

\* mutant of days_report: "and" in place of "or" in the status check
days_report_and(r, display_name, days) ==
    IF r.shape # "dict" THEN Raise("AttributeError")
    ELSE IF r.code # "0" /\ r.msg # "success"
    THEN Return("DATA_FAIL", << <<shown_msg(r.msg)>>, <<r.code>> >>)
    ELSE IF r.payload = "ok"
    THEN Return("HEALTH_REPORT", <<display_name, int_str(days)>>)
    ELSE Return("FORMAT_FAIL", <<ExcText("AttributeError")>>)

\* lines 326-337, after fetch_health_records returned a parsed body
days_report(r, display_name, days) ==
    IF r.shape # "dict" THEN Raise("AttributeError")
    ELSE IF r.code # "0" \/ r.msg # "success"
    THEN Return("DATA_FAIL", << <<shown_msg(r.msg)>>, <<r.code>> >>)
    ELSE IF r.payload = "ok"
    THEN Return("HEALTH_REPORT", <<display_name, int_str(days)>>)
    ELSE Return("FORMAT_FAIL", <<ExcText("AttributeError")>>)

\* format_health_output is called exactly when lines 326-330 neither raise nor return
days_formats(r) == r.shape = "dict" /\ r.code = "0" /\ r.msg = "success"

\* lines 318-337: the metrics GET ends with r
days_downstream ==
    /\ pc = "await_downstream"
    /\ tool = "days"
    /\ \E r \in MetricsOutcomes :
       /\ downstream' = r
       /\ IF r.k # "json"
          THEN /\ output' = Return(IF IsRequestException(r.k) THEN "HEALTH_NET_FAIL"
                                   ELSE "HEALTH_FAIL", <<ExcText(r.k)>>)
               /\ UNCHANGED formatted
          ELSE /\ output' = days_report(r, target[1].original_name, day_int)
               /\ formatted' = days_formats(r)
       /\ pc' = "done"
       /\ UNCHANGED <<tool, name, day, user_query, day_int, query_name, directory, members,
                      origin, looked, target, calls>>
    /\ UNCHANGED cvars

----------------------------------------------------------------------------
(* analyze_health_data *)

\* mutant of history_validate: the check of an empty query_name is missing
history_validate_unchecked(n) ==
    IF n.t # "str" \/ strip(n.v) = <<>>
    THEN [msg |-> "NEED_NAME", query_name |-> <<>>]
    ELSE [msg |-> "", query_name |-> normalize_ascii_pinyin(n.v)]

\* lines 126-131
history_validate(n) ==
    IF n.t # "str" \/ strip(n.v) = <<>>
    THEN [msg |-> "NEED_NAME", query_name |-> <<>>]
    ELSE IF normalize_ascii_pinyin(n.v) = <<>>
    THEN [msg |-> "NAME_FORMAT", query_name |-> <<>>]
    ELSE [msg |-> "", query_name |-> normalize_ascii_pinyin(n.v)]

\* the call arrives; the handler runs to its first return or to the directory GET
analyze_health_data(n, q) ==
    /\ pc = "idle"
    /\ tool' = "history"
    /\ name' = n
    /\ user_query' = q
    /\ LET v == history_validate(n)
       IN  /\ query_name' = v.query_name
           /\ IF v.msg # ""
              THEN /\ output' = Return(v.msg, <<>>)
                   /\ calls' = <<>>
                   /\ pc' = "done"
              ELSE /\ output' = NoOutput
                   /\ calls' = <<DirectoryCall>>
                   /\ pc' = "await_directory"
    /\ UNCHANGED <<day, day_int, directory, members, origin, looked, target, downstream,
                   formatted>>
    /\ UNCHANGED cvars

\* lines 205-214: the two except clauses around the whole body
history_except(k) ==
    Return(IF IsRequestException(k) THEN "NET_ERROR" ELSE "UNKNOWN_ERROR", <<ExcText(k)>>)

\* lines 135-159: the directory GET ends with r; the handler runs to its next
\* return or to the retrieval POST
history_directory ==
    /\ pc = "await_directory"
    /\ tool = "history"
    /\ \E r \in DirectoryOutcomes :
       /\ directory' = r
       /\ IF r.k # "json"
          THEN /\ output' = history_except(r.k)
               /\ pc' = "done"
               /\ UNCHANGED <<members, origin, looked, target, calls>>
          ELSE LET got == fetch_family_members(r, "history")
                   ms == Project(got)
                   candidates == index_get(pinyin_index(ms), query_name)
               IN  /\ members' = ms
                   /\ origin' = Origins(got)
                   /\ IF ms = <<>>
                      THEN /\ output' = Return("ROSTER_EMPTY", <<>>)
                           /\ pc' = "done"
                           /\ UNCHANGED <<looked, target, calls>>
                      ELSE /\ looked' = <<query_name>>
                           /\ target' = first_candidate(candidates)
                           /\ IF candidates = <<>>
                              THEN /\ output' = Return("NOT_OUR_MEMBER", <<>>)
                                   /\ pc' = "done"
                                   /\ UNCHANGED calls
                              ELSE /\ calls' = Append(calls,
                                           Call("POST_query", candidates[1].uid, 0, user_query))
                                   /\ pc' = "await_downstream"
                                   /\ UNCHANGED output
       /\ UNCHANGED <<tool, name, day, user_query, day_int, query_name, downstream, formatted>>
    /\ UNCHANGED cvars

\* lines 161-203, after requests.post returned a response
history_report(r, m, q) ==
    IF r.status # "200" THEN Return("RETRIEVAL_HTTP_FAIL", << <<r.status>> >>)
    ELSE IF r.k # "json" THEN history_except(r.k)
    ELSE IF r.shape # "dict" \/ r.payload # "ok" THEN history_except("AttributeError")
    ELSE Return("RETRIEVAL_REPORT", <<m.original_name, m.uid, q>>)

\* mutant of history_downstream: a failed POST is sent once more
history_downstream_retrying ==
    /\ pc = "await_downstream"
    /\ tool = "history"
    /\ \E r \in RetrievalOutcomes :
       /\ downstream' = r
       /\ IF r.k \in {"network", "timeout"} /\ Len(calls) < 3
          THEN /\ calls' = Append(calls, calls[Len(calls)])
               /\ pc' = "await_downstream"
               /\ UNCHANGED output
          ELSE /\ output' = IF r.k \in {"network", "timeout"} THEN history_except(r.k)
                            ELSE history_report(r, target[1], user_query)
               /\ pc' = "done"
               /\ UNCHANGED calls
       /\ UNCHANGED <<tool, name, day, user_query, day_int, query_name, directory, members,
                      origin, looked, target, formatted>>
    /\ UNCHANGED cvars

\* lines 159-214: the retrieval POST ends with r
history_downstream ==
    /\ pc = "await_downstream"
    /\ tool = "history"
    /\ \E r \in RetrievalOutcomes :
       /\ downstream' = r
       /\ output' = IF r.k \in {"network", "timeout"} THEN history_except(r.k)
                    ELSE history_report(r, target[1], user_query)
       /\ pc' = "done"
       /\ UNCHANGED <<tool, name, day, user_query, day_int, query_name, directory, members,
                      origin, looked, target, calls, formatted>>
    /\ UNCHANGED cvars

----------------------------------------------------------------------------
(* list_family_members *)

\* the call arrives; the handler runs to the directory GET of line 75
list_family_members ==
    /\ pc = "idle"
    /\ tool' = "list"
    /\ calls' = <<DirectoryCall>>
    /\ pc' = "await_directory"
    /\ UNCHANGED <<name, day, user_query, day_int, query_name, directory, members, origin,
                   looked, target, downstream, formatted, output>>
    /\ UNCHANGED cvars

\* lines 78-83
list_report(data) ==
    LET names == extract_names(data)
    IN  Return("LIST_REPORT", <<int_str(Len(names))>> \o names)

\* lines 75-90: the directory GET ends with r
list_directory ==
    /\ pc = "await_directory"
    /\ tool = "list"
    /\ \E r \in DirectoryOutcomes :
       /\ directory' = r
       /\ output' = IF r.k # "json"
                    THEN Return(IF IsRequestException(r.k) THEN "LIST_NET_FAIL"
                                ELSE "LIST_FAIL", <<ExcText(r.k)>>)
                    ELSE list_report(r)
       /\ pc' = "done"
       /\ UNCHANGED <<tool, name, day, user_query, day_int, query_name, members, origin,
                      looked, target, downstream, calls, formatted>>
    /\ UNCHANGED cvars

----------------------------------------------------------------------------
\* the invocation is over; nothing of it is kept for the next one
Finish ==
    /\ pc = "done"
    /\ tool \in {"days", "history", "list"}
    /\ tool' = "none"
    /\ pc' = "idle"
    /\ name' = JNull
    /\ day' = DNone
    /\ user_query' = <<>>
    /\ day_int' = 0
    /\ query_name' = <<>>
    /\ directory' = NoResp
    /\ members' = <<>>
    /\ origin' = <<>>
    /\ looked' = <<>>
    /\ target' = <<>>
    /\ downstream' = NoDown
    /\ calls' = <<>>
    /\ formatted' = FALSE
    /\ output' = NoOutput
    /\ UNCHANGED cvars

Next ==
    \/ \E n \in NameInputs, d \in DayInputs : get_health_records_by_recent_days(n, d)
    \/ days_directory
    \/ days_downstream
    \/ \E n \in NameInputs, q \in UserQueries : analyze_health_data(n, q)
    \/ history_directory
    \/ history_downstream
    \/ list_family_members
    \/ list_directory
    \/ Finish

Spec == Init /\ [][Next]_vars

----------------------------------------------------------------------------
(* The canonicalizer on its own: SpecCanon applies name_to_lower_pinyin to
   every text of at most MaxNameLen characters, and again to its result *)

Texts == UNION { [1..k -> Chars] : k \in 0..MaxNameLen }

mainvars == <<name, day, user_query, day_int, query_name, directory, members, origin,
              looked, target, downstream, calls, formatted, output>>

InitCanon ==
    /\ tool = "canon"
    /\ pc = "input"
    /\ canon_in \in Texts
    /\ canon_out = <<>>
    /\ canon_again = <<>>
    /\ name = JNull
    /\ day = DNone
    /\ user_query = <<>>
    /\ day_int = 0
    /\ query_name = <<>>
    /\ directory = NoResp
    /\ members = <<>>
    /\ origin = <<>>
    /\ looked = <<>>
    /\ target = <<>>
    /\ downstream = NoDown
    /\ calls = <<>>
    /\ formatted = FALSE
    /\ output = NoOutput

Canonicalize ==
    /\ pc = "input"
    /\ canon_out' = name_to_lower_pinyin(canon_in)
    /\ pc' = "once"
    /\ UNCHANGED <<tool, canon_in, canon_again>>
    /\ UNCHANGED mainvars

Recanonicalize ==
    /\ pc = "once"
    /\ canon_again' = name_to_lower_pinyin(canon_out)
    /\ pc' = "twice"
    /\ UNCHANGED <<tool, canon_in, canon_out>>
    /\ UNCHANGED mainvars

NextCanon == Canonicalize \/ Recanonicalize

SpecCanon == InitCanon /\ [][NextCanon]_vars

----------------------------------------------------------------------------
(* Vocabulary of the properties *)

\* the NameCanonicalizer of the specification
canonicalize(s) == name_to_lower_pinyin(s)

\* the canonical key of the supplied name (empty for a value that is no text)
SuppliedKey == IF name.t = "str" THEN canonicalize(name.v) ELSE <<>>

\* the key of the supplied name under the ASCII filter alone
SuppliedAsciiKey == IF name.t = "str" THEN normalize_ascii_pinyin(name.v) ELSE <<>>

Resolving == tool \in {"days", "history"}

DownstreamCalls == SelectSeq(calls, LAMBDA c : c.op # "GET_family_list")

\* the roster of this invocation has been fetched and searched
RosterSearched == Resolving /\ directory.k = "json" /\ members # <<>>

ValidationTags == {"NEED_NAME", "DAY_NOT_INT", "DAY_NOT_POSITIVE", "NAME_FORMAT"}
RejectionTags == {"NOT_MY_MEMBER", "NOT_OUR_MEMBER"}
DirectoryFailureTags == {"ROSTER_NET_FAIL", "ROSTER_FAIL", "ROSTER_EMPTY"}

\* the gate with the supplied name's key computed by key_of_name
Gate(key_of_name) ==
    /\ \A i \in 1..Len(calls) :
          calls[i].op # "GET_family_list" =>
             /\ i = 2
             /\ calls[1] = DirectoryCall
             /\ directory.k = "json"
             /\ target # <<>>
             /\ \E j \in 1..Len(members) : members[j] = target[1]
             /\ target[1].pinyin = key_of_name
             /\ calls[i].uid = target[1].uid
    /\ (/\ Resolving
        /\ pc = "done"
        /\ \/ output.msg \in ValidationTags \cup RejectionTags \cup DirectoryFailureTags
           \/ directory.k \in FailureKinds)
       => DownstreamCalls = <<>>

\* C1 (as claimed): a downstream call is issued only after the roster fetched
\* in the same invocation yielded a member whose canonical key equals the
\* canonical key (NameCanonicalizer) of the supplied name, the uid sent is
\* that member's, and no call is issued on a rejection, validation or
\* directory-failure path
C1_GateOnCanonicalKey == Resolving => Gate(SuppliedKey)

\* C1 (amended): the same gate, the key of the supplied name being the one
\* normalize_ascii_pinyin computes (no transliteration)
C1_GateOnAsciiKey == Resolving => Gate(SuppliedAsciiKey)

C1_Witness ==
    /\ tool = "history"
    /\ pc = "await_downstream"
    /\ Len(calls) = 2
    /\ calls[2].op = "POST_query"
    /\ name = JStr(<<"ZH_A", "b">>)

----------------------------------------------------------------------------
(* Rows as the specification reads them *)

\* a value that is present and not empty
NonEmptyCell(x) == x.t # "null" /\ py_str(x) # <<>>

\* an ordered sequence with a non-empty identifier at position 0 and a
\* non-empty display name at position 1
HasIdAndName(row) ==
    /\ row.t = "list"
    /\ Len(row.v) >= 2
    /\ NonEmptyCell(row.v[1])
    /\ NonEmptyCell(row.v[2])

\* ... whose display name has a non-empty canonical key
ValidRow(row) == HasIdAndName(row) /\ canonicalize(py_str(row.v[2])) # <<>>

RowKey(row) == canonicalize(py_str(row.v[2]))

\* the indices of the valid rows with the given key, in discovery order
ValidRowsWithKey(rows, key) ==
    {i \in 1..Len(rows) : ValidRow(rows[i]) /\ RowKey(rows[i]) = key}

Min(S) == CHOOSE x \in S : \A y \in S : x <= y

\* C2: when two or more valid rows of the roster share the key of the query,
\* the query resolves to the first of them in discovery order (its uid and
\* its display name), whatever else the roster holds
C2_FirstValidRowWins ==
    (RosterSearched /\ Cardinality(ValidRowsWithKey(directory.rows, query_name)) >= 2)
    => LET first == directory.rows[Min(ValidRowsWithKey(directory.rows, query_name))]
       IN  /\ target # <<>>
           /\ target[1].uid = strip(py_str(first.v[1]))
           /\ strip(target[1].original_name) = strip(py_str(first.v[2]))

\* C3: every member record comes from a sequence row with a non-empty
\* identifier, a non-empty display name and a non-empty key, and every such
\* row yields its record even when malformed rows precede it
C3_OnlyValidRowsBecomeMembers ==
    (Resolving /\ directory.k = "json" /\ directory.shape \in {"dict", "list"})
    => /\ Len(origin) = Len(members)
       /\ \A j \in 1..Len(members) :
             /\ origin[j] \in 1..Len(directory.rows)
             /\ ValidRow(directory.rows[origin[j]])
       /\ \A i \in 1..Len(directory.rows) :
             ValidRow(directory.rows[i]) => \E j \in 1..Len(origin) : origin[j] = i

\* C4 (as claimed): the query is canonicalized like a roster name, so a name
\* is refused as badly formed only when its canonical key is empty, and a
\* searched roster resolves it exactly when that key is some member's key
C4_QueryCanonicalizedLikeRoster ==
    Resolving =>
       /\ (output.msg = "NAME_FORMAT" => SuppliedKey = <<>>)
       /\ (RosterSearched =>
              (target # <<>> <=>
                  /\ SuppliedKey # <<>>
                  /\ \E j \in 1..Len(members) : members[j].pinyin = SuppliedKey))

\* C4 (amended): roster names get the script-aware key, the query only the
\* ASCII filter; a name is refused as badly formed exactly when the filter
\* leaves nothing of it, and a searched roster resolves it exactly when the
\* filtered key is some member's key
C4_QueryAsciiFiltered ==
    Resolving =>
       /\ (output.msg = "NAME_FORMAT" =>
              /\ name.t = "str"
              /\ SuppliedAsciiKey = <<>>
              /\ calls = <<>>)
       /\ (pc \in {"await_directory", "await_downstream"} =>
              query_name = SuppliedAsciiKey /\ query_name # <<>>)
       /\ \A j \in 1..Len(members) :
              members[j].pinyin = canonicalize(members[j].original_name)
       /\ (RosterSearched =>
              (target # <<>> <=>
                  /\ SuppliedAsciiKey # <<>>
                  /\ \E j \in 1..Len(members) : members[j].pinyin = SuppliedAsciiKey))

C4_Witness ==
    /\ tool = "days"
    /\ name = JStr(<<"A", " ">>)
    /\ target # <<>>
    /\ target[1].original_name = <<"ZH_A">>

\* C5: a query with an empty canonical key is never looked up and never
\* resolved, no downstream call is issued for it, and no index holds a
\* member under the empty key
C5_EmptyKeyNeverResolves ==
    Resolving =>
       /\ SuppliedKey = <<>> =>
              /\ target = <<>>
              /\ looked = <<>>
              /\ DownstreamCalls = <<>>
       /\ \A i \in 1..Len(looked) : looked[i] # <<>>
       /\ <<>> \notin DOMAIN pinyin_index(members)

C5_Witness ==
    /\ tool = "history"
    /\ pc = "done"
    /\ name = JStr(<<"-">>)
    /\ output = Return("NAME_FORMAT", <<>>)

\* C6: whatever the inputs and the outcomes of the calls, the invocation
\* ends by returning a text, never by raising
C6_AlwaysReturnsText == pc = "done" => output.kind = "return"

\* the day argument is no integer, or an integer <= 0
BadDay == ~py_int(day).ok \/ py_int(day).n <= 0

\* C7: with a day that is no positive integer, or a name that is empty or has
\* an empty canonical key, the recent-days tool returns a fixed corrective
\* message and issues no network call
C7_InvalidInputNoNetwork ==
    (tool = "days" /\ (BadDay \/ SuppliedKey = <<>>))
    => /\ pc = "done"
       /\ calls = <<>>
       /\ output.kind = "return"
       /\ output.msg \in ValidationTags
       /\ output.args = <<>>
       /\ directory = NoResp

C7_Witness ==
    /\ tool = "days"
    /\ name = JStr(<<"a">>)
    /\ day = DStr(<<"-", "1">>)
    /\ output = Return("DAY_NOT_POSITIVE", <<>>)

\* the metrics call answered with a JSON object whose status is not success
BusinessFailure ==
    /\ tool = "days"
    /\ pc = "done"
    /\ downstream.k = "json"
    /\ downstream.shape = "dict"
    /\ (downstream.code # "0" \/ downstream.msg # "success")

FormatterOnlyOnSuccess ==
    (tool = "days" /\ formatted)
    => /\ downstream.code = "0"
       /\ downstream.msg = "success"

\* C8 (as claimed): a non-success status gives the failure text with the
\* downstream msg and code verbatim, and the formatter runs only on success
C8_BusinessErrorVerbatim ==
    /\ BusinessFailure =>
          /\ output = Return("DATA_FAIL", << <<downstream.msg>>, <<downstream.code>> >>)
          /\ ~formatted
    /\ FormatterOnlyOnSuccess

\* C8 (amended): the same, except that an empty or absent msg is shown as
\* the fixed text for an unknown error
C8_BusinessErrorShown ==
    /\ BusinessFailure =>
          /\ output = Return("DATA_FAIL",
                             << <<IF downstream.msg = "" THEN "UNKNOWN" ELSE downstream.msg>>,
                                <<downstream.code>> >>)
          /\ ~formatted
    /\ FormatterOnlyOnSuccess

C8_Witness ==
    /\ BusinessFailure
    /\ downstream.code = "1"
    /\ downstream.msg = "denied"
    /\ output = Return("DATA_FAIL", << <<"denied">>, <<"1">> >>)

\* C9: the canonicalizer's result is empty or made of [a-z0-9] only, and on
\* ASCII text applying it twice gives what applying it once gives
C9_KeyAlphabetAndIdempotence ==
    /\ pc \in {"once", "twice"} =>
          \A i \in 1..Len(canon_out) : canon_out[i] \in LowerChars \cup DigitChars
    /\ pc = "twice" =>
          /\ \A i \in 1..Len(canon_again) : canon_again[i] \in LowerChars \cup DigitChars
          /\ (\A i \in 1..Len(canon_in) : IsAscii(canon_in[i])) => canon_again = canon_out

C9_Witness ==
    /\ pc = "twice"
    /\ canon_in = <<"ZH_BA", "-", "A">>
    /\ canon_out = <<"b", "a", "a">>
    /\ canon_again = canon_out

\* the display names of the rows that have an identifier and a name, without
\* surrounding blanks, in discovery order
RECURSIVE ValidNames(_)
ValidNames(rows) ==
    IF rows = <<>> THEN <<>>
    ELSE (IF HasIdAndName(Head(rows)) /\ strip(py_str(Head(rows).v[2])) # <<>>
          THEN <<strip(py_str(Head(rows).v[2]))>> ELSE <<>>) \o ValidNames(Tail(rows))

\* C10: the list tool reports the distinct display names of the rows that
\* have a non-empty identifier and a non-empty display name, in discovery
\* order, and their number
C10_ListsValidRows ==
    (tool = "list" /\ pc = "done" /\ directory.k = "json")
    => LET expected == IF directory.shape \in {"dict", "list"}
                       THEN uniq(ValidNames(directory.rows), {}) ELSE <<>>
       IN  output = Return("LIST_REPORT", <<int_str(Len(expected))>> \o expected)

\* the downstream operation of each tool
DownstreamOp == [days |-> "GET_health_records", history |-> "POST_query"]

\* the directory fetch failed, or gave no member
DirectoryFailedOrEmpty ==
    \/ directory.k \in FailureKinds
    \/ directory.k = "json" /\ Resolving /\ members = <<>>

\* C11: an invocation issues at most two network calls, the directory fetch
\* first and the downstream query second, each once: a call that failed is
\* not sent again and ends the invocation; a failed or empty directory fetch
\* ends it with no downstream call; the list tool issues exactly one call
C11_AtMostTwoCallsInOrder ==
    tool \in {"days", "history", "list"} =>
       /\ Len(calls) <= 2
       /\ Len(calls) >= 1 => calls[1] = DirectoryCall
       /\ Len(calls) = 2 =>
             /\ Resolving
             /\ calls[2].op = DownstreamOp[tool]
             /\ directory.k = "json"
       /\ pc = "await_directory" => (Len(calls) = 1 /\ directory = NoResp)
       /\ pc = "await_downstream" => (Len(calls) = 2 /\ downstream = NoDown)
       /\ directory # NoResp => Len(calls) >= 1
       /\ downstream # NoDown => (Len(calls) = 2 /\ pc = "done")
       /\ DirectoryFailedOrEmpty => (pc = "done" /\ calls = <<DirectoryCall>>)
       /\ tool = "list" => calls = <<DirectoryCall>>

C11_Witness ==
    /\ tool = "days"
    /\ pc = "done"
    /\ downstream.k = "timeout"
    /\ Len(calls) = 2
    /\ calls[2].op = "GET_health_records"

============================================================================
